---- MODULE Spec2Model ----
(***************************************************************************)
(* Mini Logger CSV Map Converter (src/Streamlit-csv-converter.py).         *)
(*                                                                         *)
(* One run of the Streamlit script: an upload (or none) is read into a     *)
(* table, its columns are renamed to the canonical schema, the Time column *)
(* is parsed, invalid rows are dropped and the rest sorted, and the trip   *)
(* summary, the map and the chart are produced from the cleaned table.     *)
(*                                                                         *)
(* Text (column names, CSV cells) is a sequence of one-character strings,  *)
(* so that lower-casing, stripping and parsing are computed character by   *)
(* character.  Numbers are integers.  On the epoch axis one unit of a      *)
(* numeric Time cell stands for 10^8 (seconds or milliseconds, whichever   *)
(* unit parse_time_series picks), and a parsed timestamp counts ticks of   *)
(* 10 seconds since the epoch: 1e11 is 1000 units, one day is 8640 ticks.  *)
(***************************************************************************)
EXTENDS Integers, Sequences, FiniteSets, TLC

VARIABLES
  pc,        \* position of the script run
  uploaded,  \* st.file_uploader's value for this run
  df_raw,    \* the table as read (line 213 / 216-218)
  df,        \* the working table (lines 220, 228, 229)
  clean_in,  \* the table clean_dataframe was called with
  stats,     \* summarize_trip's result
  m,         \* draw_map's result
  fig,       \* plot_speed_rpm's result
  ui,        \* what the page shows, in order
  trace,     \* the stages started so far, in order
  exc        \* the uncaught exception that ended the run, if any

vars == <<pc, uploaded, df_raw, df, clean_in, stats, m, fig, ui, trace, exc>>

-----------------------------------------------------------------------------
(* Bounds of the input families *)

MaxCols == 3
MaxWideRows == 2
MaxDeepRows == 3
MaxTimeRows == 2
MaxFallbackCols == 6

-----------------------------------------------------------------------------
(* Characters and text *)

UpperCase == <<"A","B","C","D","E","F","G","H","I","J","K","L","M",
               "N","O","P","Q","R","S","T","U","V","W","X","Y","Z">>
LowerCase == <<"a","b","c","d","e","f","g","h","i","j","k","l","m",
               "n","o","p","q","r","s","t","u","v","w","x","y","z">>
Digits == <<"0","1","2","3","4","5","6","7","8","9">>

Range(s) == { s[i] : i \in DOMAIN s }

Min(a, b) == IF a <= b THEN a ELSE b

Abs(a) == IF a < 0 THEN -a ELSE a

\* str.lower() on one character
LowerChar(ch) ==
  IF \E i \in DOMAIN UpperCase : UpperCase[i] = ch
  THEN LowerCase[CHOOSE i \in DOMAIN UpperCase : UpperCase[i] = ch]
  ELSE ch

\* c.lower()
RECURSIVE Lower(_)
Lower(s) ==
  IF s = <<>> THEN <<>> ELSE <<LowerChar(Head(s))>> \o Lower(Tail(s))

\* s.replace(ch, "")
RECURSIVE Remove(_, _)
Remove(s, ch) ==
  IF s = <<>> THEN <<>>
  ELSE IF Head(s) = ch THEN Remove(Tail(s), ch)
  ELSE <<Head(s)>> \o Remove(Tail(s), ch)

IsDigit(ch) == \E i \in DOMAIN Digits : Digits[i] = ch

DigitVal(ch) == (CHOOSE i \in DOMAIN Digits : Digits[i] = ch) - 1

RECURSIVE DigitsValue(_, _)
DigitsValue(s, acc) ==
  IF s = <<>> THEN acc ELSE DigitsValue(Tail(s), 10 * acc + DigitVal(Head(s)))

AllDigits(s) == s # <<>> /\ \A i \in DOMAIN s : IsDigit(s[i])

\* The numeric reading of a CSV cell: an optional minus sign and digits.
IsNumberText(s) ==
  \/ AllDigits(s)
  \/ s # <<>> /\ Head(s) = "-" /\ AllDigits(Tail(s))

NumberValue(s) ==
  IF Head(s) = "-" THEN 0 - DigitsValue(Tail(s), 0) ELSE DigitsValue(s, 0)

-----------------------------------------------------------------------------
(* Cells and tables *)

Num(v) == [t |-> "num", v |-> v, s |-> <<>>]
NaN    == [t |-> "nan", v |-> 0, s |-> <<>>]
Str(x) == [t |-> "str", v |-> 0, s |-> x]
Ts(v)  == [t |-> "ts",  v |-> v, s |-> <<>>]
NaT    == [t |-> "nat", v |-> 0, s |-> <<>>]

NoTable == [cols |-> <<>>, rows |-> <<>>]

\* The positions of the columns labelled name
ColIdx(T, name) == { j \in DOMAIN T.cols : T.cols[j] = name }

\* name in df.columns
HasCol(T, name) == ColIdx(T, name) # {}

\* A label carried by more than one column: df[name] is then a DataFrame,
\* not a Series.
Duplicated(T, name) == Cardinality(ColIdx(T, name)) > 1

\* The position of the only column labelled name
Col(T, name) == CHOOSE j \in ColIdx(T, name) : TRUE

\* df.empty that is never true
IsEmpty_Never(T) == FALSE

\* df.empty
IsEmpty(T) == Len(T.cols) = 0 \/ Len(T.rows) = 0

-----------------------------------------------------------------------------
(* pd.read_csv *)

\* dtype inference of column j: numeric when there is at least one line and
\* every cell is empty or a number.
NumericText(lines, j) ==
  /\ Len(lines) > 0
  /\ \A r \in DOMAIN lines : lines[r][j] = <<>> \/ IsNumberText(lines[r][j])

ReadCell(text, numeric) ==
  IF text = <<>> THEN NaN
  ELSE IF numeric THEN Num(NumberValue(text))
  ELSE Str(text)

\* The table of the given column labels and CSV lines, with a RangeIndex.
ReadCsv(labels, lines) ==
  [cols |-> labels,
   rows |-> [r \in DOMAIN lines |->
               [idx   |-> r - 1,
                cells |-> [j \in DOMAIN labels |->
                             ReadCell(lines[r][j], NumericText(lines, j))]]]]

\* header=None labels the columns 0, 1, ...; a label i is written as the text
\* of its digit.
IntLabels(k) == [j \in 1..k |-> <<Digits[j]>>]

-----------------------------------------------------------------------------
(* Column names *)

Lat   == <<"L","a","t">>
Lng   == <<"L","n","g">>
Speed == <<"S","p","e","e","d">>
Time  == <<"T","i","m","e">>
RPM   == <<"R","P","M">>

\* line 218: the names given to a headerless table
ExpectedColumns == <<Lat, Lng, Speed, Time, RPM>>

LatSyns == { <<"l","a","t">>, <<"l","a","t","i","t","u","d","e">> }
LngSyns == { <<"l","n","g">>, <<"l","o","n">>,
             <<"l","o","n","g","i","t","u","d","e">> }
SpeedSyns == { <<"s","p","e","e","d">>, <<"s","p","e","e","d","m","p","h">>,
               <<"s","p","e","e","d","_","m","p","h">>, <<"m","p","h">> }
TimeSyns == { <<"t","i","m","e">>,
              <<"u","t","c","d","a","t","e","t","i","m","e">>,
              <<"d","a","t","e","t","i","m","e">>,
              <<"t","i","m","e","s","t","a","m","p">> }
RpmSyns == { <<"r","p","m">> }

-----------------------------------------------------------------------------
(* normalize_columns *)

\* A key that keeps the underscores
lc_KeepUnderscore(c) == Remove(Lower(c), " ")

\* line 19: lc[c]
lc(c) == Remove(Remove(Lower(c), " "), "_")

\* lines 21-25: the first column, in column order, whose key is in syns;
\* None is the empty text (both are falsy at lines 34-38).
find(cols, syns) ==
  LET hits == { j \in DOMAIN cols : lc(cols[j]) \in syns }
  IN IF hits = {} THEN <<>>
     ELSE cols[CHOOSE j \in hits : \A k \in hits : j <= k]

\* lines 33-38: the renames dict as (original, canonical) pairs in the order
\* the entries are set
Renames(cols) ==
  LET add(orig, canon) == IF orig # <<>> THEN << <<orig, canon>> >> ELSE <<>>
  IN add(find(cols, LatSyns), Lat) \o add(find(cols, LngSyns), Lng)
     \o add(find(cols, SpeedSyns), Speed) \o add(find(cols, TimeSyns), Time)
     \o add(find(cols, RpmSyns), RPM)

\* dict lookup: the last entry set for a key wins
Renamed(renames, c) ==
  LET hits == { i \in DOMAIN renames : renames[i][1] = c }
  IN IF hits = {} THEN c
     ELSE renames[CHOOSE i \in hits : \A k \in hits : k <= i][2]

\* lines 16-41
normalize_columns(T) ==
  LET renames == Renames(T.cols)
  IN [T EXCEPT !.cols = [j \in DOMAIN T.cols |-> Renamed(renames, T.cols[j])]]

-----------------------------------------------------------------------------
(* parse_time_series *)

\* line 53: 1e11, in units of 10^8
MsThreshold == 1000

\* pd.to_datetime's datetime64[ns] range, 9223372036.85 s either side of the
\* epoch, in units of 10^8 s and of 10^8 ms
MaxSecondUnits == 92
MaxMsUnits == 92233720

TicksPerSecondUnit == 10^7
TicksPerMsUnit == 10^4
TicksPerDay == 8640

\* np.issubdtype(s.dtype, np.number) for column j as read_csv typed it
IsNumericCol(T, j) ==
  /\ Len(T.rows) > 0
  /\ \A r \in DOMAIN T.rows : T.rows[r].cells[j].t \in {"num", "nan"}

\* s.dropna()
NonMissing(T, j) ==
  { T.rows[r].cells[j].v : r \in { q \in DOMAIN T.rows : T.rows[q].cells[j].t = "num" } }

\* The unit with >= in place of >
TimeUnit_Inclusive(T, j) ==
  LET vals == NonMissing(T, j)
  IN IF vals # {} /\ (CHOOSE v \in vals : \A w \in vals : w <= v) >= MsThreshold
     THEN "ms" ELSE "s"

\* lines 52-53: vmax is NaN when every value is missing, and NaN > 1e11 is
\* False
TimeUnit(T, j) ==
  LET vals == NonMissing(T, j)
  IN IF vals # {} /\ (CHOOSE v \in vals : \A w \in vals : w <= v) > MsThreshold
     THEN "ms" ELSE "s"

\* line 54: pd.to_datetime(s, unit=unit, utc=True, errors="coerce") on one
\* cell; a value outside the datetime64[ns] range is coerced to NaT
EpochToTs(cell, unit) ==
  IF cell.t # "num" THEN NaT
  ELSE IF unit = "ms"
       THEN IF Abs(cell.v) <= MaxMsUnits THEN Ts(cell.v * TicksPerMsUnit) ELSE NaT
       ELSE IF Abs(cell.v) <= MaxSecondUnits
            THEN Ts(cell.v * TicksPerSecondUnit) ELSE NaT

IsLeap(y) == (y % 4 = 0 /\ y % 100 # 0) \/ y % 400 = 0

DaysInMonth(y, mo) ==
  IF mo = 2 THEN (IF IsLeap(y) THEN 29 ELSE 28)
  ELSE IF mo \in {4, 6, 9, 11} THEN 30 ELSE 31

\* Days from 1970-01-01 to the civil date y-mo-d
DaysFromCivil(y, mo, d) ==
  LET yy  == IF mo <= 2 THEN y - 1 ELSE y
      era == yy \div 400
      yoe == yy - era * 400
      mp  == IF mo > 2 THEN mo - 3 ELSE mo + 9
      doy == (153 * mp + 2) \div 5 + d - 1
      doe == yoe * 365 + yoe \div 4 - yoe \div 100 + doy
  IN era * 146097 + doe - 719468

\* A date text YYYY-MM-DD within the datetime64[ns] years
IsIsoDate(x) ==
  /\ Len(x) = 10
  /\ x[5] = "-" /\ x[8] = "-"
  /\ \A i \in {1, 2, 3, 4, 6, 7, 9, 10} : IsDigit(x[i])
  /\ LET y  == DigitsValue(SubSeq(x, 1, 4), 0)
         mo == DigitsValue(SubSeq(x, 6, 7), 0)
         d  == DigitsValue(SubSeq(x, 9, 10), 0)
     IN /\ y \in 1678..2261
        /\ mo \in 1..12
        /\ d \in 1..DaysInMonth(y, mo)

\* line 57: pd.to_datetime(s, utc=True, errors="coerce") on one cell of an
\* object column
TextToTs(cell) ==
  IF cell.t = "str" /\ IsIsoDate(cell.s)
  THEN Ts(TicksPerDay * DaysFromCivil(DigitsValue(SubSeq(cell.s, 1, 4), 0),
                                      DigitsValue(SubSeq(cell.s, 6, 7), 0),
                                      DigitsValue(SubSeq(cell.s, 9, 10), 0)))
  ELSE NaT

\* lines 43-60, applied to column j of T: the parsed column, row by row
parse_time_series(T, j) ==
  IF IsNumericCol(T, j)
  THEN LET unit == TimeUnit(T, j)
       IN [r \in DOMAIN T.rows |-> EpochToTs(T.rows[r].cells[j], unit)]
  ELSE [r \in DOMAIN T.rows |-> TextToTs(T.rows[r].cells[j])]

\* df[name] = column
SetColumn(T, j, column) ==
  [T EXCEPT !.rows = [r \in DOMAIN T.rows |->
                        [T.rows[r] EXCEPT !.cells[j] = column[r]]]]

-----------------------------------------------------------------------------
(* clean_dataframe *)

\* pd.to_numeric(errors="coerce") on one cell
ToNumeric(cell) ==
  IF cell.t = "str"
  THEN IF IsNumberText(cell.s) THEN Num(NumberValue(cell.s)) ELSE NaN
  ELSE cell

\* line 64
NumericCols == <<Lat, Lng, Speed, RPM>>

\* line 69
req == <<Lat, Lng, Time>>

\* lines 64-66, the first n entries of the loop: each column present is
\* coerced in place
RECURSIVE Coerce(_, _)
Coerce(T, n) ==
  IF n = 0 THEN T
  ELSE LET U == Coerce(T, n - 1)
           c == NumericCols[n]
       IN IF HasCol(U, c)
          THEN SetColumn(U, Col(U, c),
                         [r \in DOMAIN U.rows |-> ToNumeric(U.rows[r].cells[Col(U, c)])])
          ELSE U

\* The first entry of the loop at which pd.to_numeric is handed a DataFrame
\* (a duplicated label), or 0
FirstDuplicated(T) ==
  LET bad == { n \in DOMAIN NumericCols : Duplicated(T, NumericCols[n]) }
  IN IF bad = {} THEN 0 ELSE CHOOSE n \in bad : \A k \in bad : n <= k

\* lines 70-73: the first required column that is missing, or 0
FirstMissing(T) ==
  LET miss == { n \in DOMAIN req : ~HasCol(T, req[n]) }
  IN IF miss = {} THEN 0 ELSE CHOOSE n \in miss : \A k \in miss : n <= k

Missing(cell) == cell.t \in {"nan", "nat"}

\* between() with the upper end left out
Between_Exclusive(cell, lo, hi) == cell.t = "num" /\ lo <= cell.v /\ cell.v < hi

\* Series.between(lo, hi), inclusive on both sides; NaN is in no interval
Between(cell, lo, hi) == cell.t = "num" /\ lo <= cell.v /\ cell.v <= hi

\* df[col] >= 0; NaN >= 0 is False
NonNegative(cell) == cell.t = "num" /\ cell.v >= 0

\* lines 75-85 on one row
Keeps(T, row) ==
  /\ \A n \in DOMAIN req : ~Missing(row.cells[Col(T, req[n])])
  /\ Between(row.cells[Col(T, Lat)], -90, 90)
  /\ Between(row.cells[Col(T, Lng)], -180, 180)
  /\ HasCol(T, Speed) => NonNegative(row.cells[Col(T, Speed)])
  /\ HasCol(T, RPM) => NonNegative(row.cells[Col(T, RPM)])

\* lines 75-85: the rows kept, in their order, with their labels
Filter(T) == [T EXCEPT !.rows = SelectSeq(T.rows, LAMBDA row : Keeps(T, row))]

TimeOf(T, row) == row.cells[Col(T, Time)].v

\* sort_values("Time") leaving the rows as they are
sort_values_Unsorted(T) == { T }

\* line 88, sort_values("Time"): the default sort is not stable, so rows with
\* equal Time may come out in any order
sort_values(T) ==
  LET n == Len(T.rows)
      perms == { p \in [1..n -> 1..n] :
                   /\ \A a, b \in 1..n : a # b => p[a] # p[b]
                   /\ \A a \in 1..n : a < n =>
                        TimeOf(T, T.rows[p[a]]) <= TimeOf(T, T.rows[p[a + 1]]) }
  IN { [T EXCEPT !.rows = [a \in 1..n |-> T.rows[p[a]]]] : p \in perms }

\* line 88, reset_index(drop=True)
reset_index(T) ==
  [T EXCEPT !.rows = [a \in DOMAIN T.rows |-> [T.rows[a] EXCEPT !.idx = a - 1]]]

\* lines 62-89 for a table that has the required columns, none duplicated:
\* the tables clean_dataframe may return
clean_dataframe(T) ==
  { reset_index(S) : S \in sort_values(Filter(Coerce(T, Len(NumericCols)))) }

-----------------------------------------------------------------------------
(* summarize_trip, draw_map, plot_speed_rpm *)

\* geodesic(p, q).miles.  geopy's ellipsoidal distance is a library function
\* with real values; it is stood for by whole miles at 69 to the degree,
\* along the meridian and then along the parallel, the longitude difference
\* taken the short way round.  Like the library's it is symmetric and 0 for
\* equal points.
geodesic_miles(p, q) ==
  LET dlat == Abs(p[1] - q[1])
      dlng == Abs(p[2] - q[2])
  IN 69 * (dlat + Min(dlng, 360 - dlng))

Column(T, name) == [r \in DOMAIN T.rows |-> T.rows[r].cells[Col(T, name)].v]

\* Python's range(a, b) as a sequence
PyRange(a, b) == [k \in 1..(b - a) |-> a + k - 1]

\* The loop missing its first pair
LoopIndices_Late(n) == PyRange(2, n)

\* line 161: range(1, len(df))
LoopIndices(n) == PyRange(1, n)

\* lines 161-162: the loop over the indices left, i counting rows from 0
RECURSIVE DistanceLoop(_, _, _, _)
DistanceLoop(lat, lng, indices, total) ==
  IF indices = <<>> THEN total
  ELSE LET i == Head(indices)
       IN DistanceLoop(lat, lng, Tail(indices),
                       total + geodesic_miles(<<lat[i], lng[i]>>,
                                              <<lat[i + 1], lng[i + 1]>>))

RECURSIVE SeqSum(_)
SeqSum(s) == IF s = <<>> THEN 0 ELSE Head(s) + SeqSum(Tail(s))

SeqMax(s) == CHOOSE v \in Range(s) : \A w \in Range(s) : w <= v

NoStats == [start |-> 0, end |-> 0, duration |-> 0, distance_mi |-> 0,
            has_speed |-> FALSE, top_speed |-> 0,
            avg_speed |-> [sum |-> 0, count |-> 0]]

\* lines 156-183 for a table with at least one row; the mean is kept as the
\* sum and the count, None as has_speed = FALSE
summarize_trip(T) ==
  LET n == Len(T.rows)
      time == Column(T, Time)
  IN [start       |-> time[1],
      end         |-> time[n],
      duration    |-> time[n] - time[1],
      distance_mi |-> DistanceLoop(Column(T, Lat), Column(T, Lng), LoopIndices(n), 0),
      has_speed   |-> HasCol(T, Speed),
      top_speed   |-> IF HasCol(T, Speed) THEN SeqMax(Column(T, Speed)) ELSE 0,
      avg_speed   |-> IF HasCol(T, Speed)
                      THEN [sum |-> SeqSum(Column(T, Speed)), count |-> n]
                      ELSE [sum |-> 0, count |-> 0]]

NoMap == [location |-> <<0, 0>>, start |-> <<0, 0>>, end |-> <<0, 0>>,
          lines |-> 0, fastest |-> <<>>]

Point(T, a) == <<Column(T, Lat)[a], Column(T, Lng)[a]>>

\* lines 99-154: the centre, the path's pieces (one per pair when coloured by
\* speed, else one line), the start and end markers and, when there is a
\* Speed column, the marker at iloc[idxmax()]
draw_map(T) ==
  LET n == Len(T.rows)
      speed == Column(T, Speed)
      first_max == CHOOSE a \in 1..n :
                     /\ speed[a] = SeqMax(speed)
                     /\ \A b \in 1..n : speed[b] = SeqMax(speed) => a <= b
      max_idx == T.rows[first_max].idx
  IN [location |-> Point(T, 1),
      start    |-> Point(T, 1),
      end      |-> Point(T, n),
      lines    |-> IF HasCol(T, Speed) THEN n - 1 ELSE 1,
      fastest  |-> IF HasCol(T, Speed) THEN <<Point(T, max_idx + 1)>> ELSE <<>>]

NoFig == [x |-> <<>>, speed |-> FALSE, rpm |-> FALSE]

\* lines 185-205
plot_speed_rpm(T) ==
  [x |-> Column(T, Time), speed |-> HasCol(T, Speed), rpm |-> HasCol(T, RPM)]

-----------------------------------------------------------------------------
(* The uploads considered *)

\* The decimal text of an integer
RECURSIVE NatText(_)
NatText(n) == IF n < 10 THEN <<Digits[n + 1]>>
              ELSE NatText(n \div 10) \o <<Digits[(n % 10) + 1]>>

Text(n) == IF n < 0 THEN <<"-">> \o NatText(0 - n) ELSE NatText(n)

Empty == <<>>
NotANumber == <<"a","b","c">>

SeqsUpTo(S, n) == UNION { [1..k -> S] : k \in 0..n }

NoFile == [present |-> FALSE, raises |-> FALSE, ncols |-> 0,
           names |-> <<>>, lines |-> <<>>]

\* A CSV file whose first read succeeds
HeaderFile(names, lines) ==
  [present |-> TRUE, raises |-> FALSE, ncols |-> Len(names),
   names |-> names, lines |-> lines]

\* A file whose first read raises and whose headerless read yields k columns
\* (none: the second read raises as well)
HeaderlessFile(k, lines) ==
  [present |-> TRUE, raises |-> TRUE, ncols |-> k,
   names |-> <<>>, lines |-> lines]

\* Spellings of column names: canonical, synonyms in mixed case with spaces
\* and underscores, and names that match nothing
NamePool ==
  { Lat, <<"l","a","t","i","t","u","d","e">>, <<"L","_","A","T">>,
    <<"l","o","n">>,
    <<"S","p","e","e","d","_","M","P","H">>,
    Time, <<"U","T","C","_","d","a","t","e","t","i","m","e">>,
    <<"T","i","m","e"," ","s","t","a","m","p">>,
    <<"r","p","m">>,
    <<"A","l","t">> }

\* Every header of up to MaxCols distinct names, over one line 1,2,3,...
NameFiles ==
  { HeaderFile(h, << [j \in DOMAIN h |-> Text(j)] >>) :
      h \in { g \in SeqsUpTo(NamePool, MaxCols) :
                /\ g # <<>>
                /\ \A a, b \in DOMAIN g : a # b => g[a] # g[b] } }

\* Lines lat,lng,speed,time,rpm: a valid line, and lines that differ from a
\* valid one in one cell
WideLines ==
  { <<Text(45), Text(10), Text(30), Text(20), Text(900)>> }
  \cup { <<x, Text(10), Text(30), Text(21), Text(900)>> :
           x \in { Text(-91), Text(-90), Text(90), Text(91), Empty, NotANumber } }
  \cup { <<Text(45), x, Text(30), Text(22), Text(900)>> :
           x \in { Text(-181), Text(-180), Text(180), Text(181), Empty } }
  \cup { <<Text(45), Text(10), x, Text(23), Text(900)>> :
           x \in { Text(-1), Text(0), Empty, NotANumber } }
  \cup { <<Text(45), Text(10), Text(30), x, Text(900)>> :
           x \in { Empty, Text(10) } }
  \cup { <<Text(45), Text(10), Text(30), Text(24), x>> :
           x \in { Text(-1), Empty } }

\* Lines lat,lng,time for a table without Speed and RPM
NarrowLines ==
  { <<Text(45), Text(10), Text(20)>>, <<Text(-91), Text(10), Text(21)>>,
    <<Text(90), Text(10), Text(21)>>, <<Text(45), Text(181), Text(22)>>,
    <<Text(45), Text(10), Empty>> }

\* The wide lines under the full header, the narrow ones under Lat, Lng, Time
WideFiles ==
  { HeaderFile(<<Lat, Lng, Speed, Time, RPM>>, ls) :
      ls \in SeqsUpTo(WideLines, MaxWideRows) }
  \cup { HeaderFile(<<Lat, Lng, Time>>, ls) :
           ls \in SeqsUpTo(NarrowLines, MaxWideRows) }

\* Longer trips lat,lon,mph,timestamp out of time order, with equal times,
\* and with lines that cleaning drops
DeepLines ==
  { <<Text(0), Text(0), Text(10), Text(30)>>,
    <<Text(45), Text(0), Text(20), Text(10)>>,
    <<Text(45), Text(90), Text(30), Text(20)>>,
    <<Text(-45), Text(180), Text(30), Text(20)>>,
    <<Text(91), Text(0), Text(5), Text(5)>>,
    <<Text(10), Text(-170), Text(0), Empty>> }

DeepFiles ==
  { HeaderFile(<< <<"l","a","t","i","t","u","d","e">>, <<"l","o","n">>,
                  <<"m","p","h">>, <<"t","i","m","e","s","t","a","m","p">> >>, ls) :
      ls \in SeqsUpTo(DeepLines, MaxDeepRows) }

\* Time cells: epoch numbers around the seconds range and the 1e11 threshold,
\* dates, and text that is no date
TimeTexts ==
  { Empty, Text(-1), Text(5), Text(92), Text(93), Text(1000), Text(1001),
    Text(17000),
    <<"1","9","7","0","-","0","1","-","0","2">>,
    <<"2","0","2","4","-","0","2","-","2","9">>,
    <<"2","0","2","3","-","0","2","-","2","9">>,
    NotANumber }

\* A Time column is all epoch numbers or all date text, with gaps
TimeFiles ==
  { HeaderFile(<<Lat, Lng, Time>>,
               [r \in DOMAIN ts |-> <<Text(r), Text(2 * r), ts[r]>>]) :
      ts \in { u \in SeqsUpTo(TimeTexts, MaxTimeRows) :
                \/ \A r \in DOMAIN u : u[r] = Empty \/ IsNumberText(u[r])
                \/ \A r \in DOMAIN u : u[r] = Empty \/ ~IsNumberText(u[r]) } }

\* Headerless files of 0..MaxFallbackCols columns and up to two lines
HeaderlessLine(r, k) ==
  [j \in 1..k |-> CASE j = 1 -> Text(10 * r)
                    [] j = 2 -> Text(20 * r)
                    [] j = 3 -> Text(5)
                    [] j = 4 -> Text(10 - r)
                    [] j = 5 -> Text(900)
                    [] OTHER -> Text(j)]

HeaderlessFiles ==
  { HeaderlessFile(k, [r \in 1..n |-> HeaderlessLine(r, k)]) :
      k \in 0..MaxFallbackCols, n \in 0..2 }

Uploads ==
  {NoFile} \cup NameFiles \cup WideFiles \cup DeepFiles \cup TimeFiles
  \cup HeaderlessFiles

-----------------------------------------------------------------------------
(* The script run *)

\* Python's s[:k]
Take(s, k) == SubSeq(s, 1, Min(k, Len(s)))

Crash(name) == pc' = "crashed" /\ exc' = name

Init ==
  /\ pc = "start"
  /\ uploaded \in Uploads
  /\ df_raw = NoTable
  /\ df = NoTable
  /\ clean_in = NoTable
  /\ stats = NoStats
  /\ m = NoMap
  /\ fig = NoFig
  /\ ui = <<>>
  /\ trace = <<>>
  /\ exc = ""

\* lines 261-262
NoUpload ==
  /\ pc = "start"
  /\ ~uploaded.present
  /\ ui' = Append(ui, "info: Upload a CSV file to get started.")
  /\ pc' = "done"
  /\ UNCHANGED <<uploaded, df_raw, df, clean_in, stats, m, fig, trace, exc>>

\* lines 210-218
Load ==
  /\ pc = "start"
  /\ uploaded.present
  /\ trace' = Append(trace, "load")
  /\ IF ~uploaded.raises
     THEN /\ df_raw' = ReadCsv(uploaded.names, uploaded.lines)
          /\ pc' = "loaded"
          /\ exc' = exc
     ELSE IF uploaded.ncols = 0
     THEN /\ df_raw' = df_raw
          /\ Crash("EmptyDataError")
     ELSE LET T == ReadCsv(IntLabels(uploaded.ncols), uploaded.lines)
              columns == Take(ExpectedColumns, Len(T.cols))
          IN IF Len(columns) # Len(T.cols)
             THEN /\ df_raw' = T
                  /\ Crash("ValueError")
             ELSE /\ df_raw' = [T EXCEPT !.cols = columns]
                  /\ pc' = "loaded"
                  /\ exc' = exc
  /\ UNCHANGED <<uploaded, df, clean_in, stats, m, fig, ui>>

\* line 220
Normalize ==
  /\ pc = "loaded"
  /\ trace' = Append(trace, "normalize")
  /\ df' = normalize_columns(df_raw)
  /\ pc' = "normalized"
  /\ UNCHANGED <<uploaded, df_raw, clean_in, stats, m, fig, ui, exc>>

\* lines 223-225
StopNoTime ==
  /\ pc = "normalized"
  /\ ~HasCol(df, Time)
  /\ ui' = Append(ui, "error: Could not detect a time column")
  /\ pc' = "stopped"
  /\ UNCHANGED <<uploaded, df_raw, df, clean_in, stats, m, fig, trace, exc>>

\* line 228; with two columns labelled Time, df["Time"] is a DataFrame and
\* s.dtype raises
ParseTime ==
  /\ pc = "normalized"
  /\ HasCol(df, Time)
  /\ trace' = Append(trace, "parse_time")
  /\ IF Duplicated(df, Time)
     THEN /\ df' = df
          /\ Crash("AttributeError")
     ELSE /\ df' = SetColumn(df, Col(df, Time), parse_time_series(df, Col(df, Time)))
          /\ pc' = "time_parsed"
          /\ exc' = exc
  /\ UNCHANGED <<uploaded, df_raw, clean_in, stats, m, fig, ui>>

\* line 229: the coercions are made in place, so they are kept when the call
\* raises (pd.to_numeric of a duplicated label) or stops (a column missing)
Clean ==
  /\ pc = "time_parsed"
  /\ trace' = Append(trace, "clean")
  /\ clean_in' = df
  /\ IF FirstDuplicated(df) # 0
     THEN /\ df' = Coerce(df, FirstDuplicated(df) - 1)
          /\ Crash("TypeError")
          /\ ui' = ui
     ELSE IF FirstMissing(df) # 0
     THEN /\ df' = Coerce(df, Len(NumericCols))
          /\ ui' = Append(ui, "error: Missing required column")
          /\ pc' = "stopped"
          /\ exc' = exc
     ELSE /\ df' \in clean_dataframe(df)
          /\ pc' = "cleaned"
          /\ ui' = ui
          /\ exc' = exc
  /\ UNCHANGED <<uploaded, df_raw, stats, m, fig>>

\* lines 231-233
StopEmpty ==
  /\ pc = "cleaned"
  /\ IsEmpty(df)
  /\ ui' = Append(ui, "error: No valid GPS rows after cleaning.")
  /\ pc' = "stopped"
  /\ UNCHANGED <<uploaded, df_raw, df, clean_in, stats, m, fig, trace, exc>>

\* lines 236-249; on a table without rows, iloc[0] at line 165 raises
Summarize ==
  /\ pc = "cleaned"
  /\ ~IsEmpty(df)
  /\ trace' = Append(trace, "summarize")
  /\ IF Len(df.rows) = 0
     THEN /\ stats' = stats
          /\ ui' = ui
          /\ Crash("IndexError")
     ELSE /\ stats' = summarize_trip(df)
          /\ ui' = Append(ui, "Summary Statistics")
          /\ pc' = "summarized"
          /\ exc' = exc
  /\ UNCHANGED <<uploaded, df_raw, df, clean_in, m, fig>>

\* The map drawn as soon as the table is cleaned
DrawMap_Early ==
  /\ pc = "cleaned"
  /\ ~IsEmpty(df)
  /\ trace' = Append(trace, "draw_map")
  /\ m' = draw_map(df)
  /\ ui' = Append(ui, "Interactive GPS Map")
  /\ pc' = "mapped"
  /\ UNCHANGED <<uploaded, df_raw, df, clean_in, stats, fig, exc>>

\* lines 252-254
DrawMap ==
  /\ pc = "summarized"
  /\ trace' = Append(trace, "draw_map")
  /\ m' = draw_map(df)
  /\ ui' = Append(ui, "Interactive GPS Map")
  /\ pc' = "mapped"
  /\ UNCHANGED <<uploaded, df_raw, df, clean_in, stats, fig, exc>>

\* lines 257-259
Plot ==
  /\ pc = "mapped"
  /\ trace' = Append(trace, "plot")
  /\ fig' = plot_speed_rpm(df)
  /\ ui' = Append(ui, "Speed & RPM Over Time")
  /\ pc' = "done"
  /\ UNCHANGED <<uploaded, df_raw, df, clean_in, stats, m, exc>>

Next ==
  \/ NoUpload
  \/ Load
  \/ Normalize
  \/ StopNoTime
  \/ ParseTime
  \/ Clean
  \/ StopEmpty
  \/ Summarize
  \/ DrawMap
  \/ Plot

Spec == Init /\ [][Next]_vars

-----------------------------------------------------------------------------
(* Properties *)

StageOrder ==
  <<"load", "normalize", "parse_time", "clean", "summarize", "draw_map", "plot">>

IsPrefix(s, t) == Len(s) <= Len(t) /\ s = SubSeq(t, 1, Len(s))

Started(stage) == stage \in Range(trace)

\* The number of stages started when the run is at pc without having halted
Progress ==
  [start |-> 0, loaded |-> 1, normalized |-> 2, time_parsed |-> 3,
   cleaned |-> 4, summarized |-> 5, mapped |-> 6, done |-> 7]

\* C1: the stages start in the fixed order load, normalize, parse time, clean,
\* summarise, draw map, plot chart, each at most once and each only after the
\* one before it has finished (the run's position tells how many have
\* started); a run that reaches the end with a file has run all seven, and
\* with no file no stage runs and only the upload prompt is shown.
C1_StagesInOrder ==
  /\ IsPrefix(trace, StageOrder)
  /\ uploaded.present /\ pc \in DOMAIN Progress => Len(trace) = Progress[pc]
  /\ ~uploaded.present =>
       /\ trace = <<>>
       /\ pc \in {"start", "done"}
       /\ pc = "done" => ui = <<"info: Upload a CSV file to get started.">>
       /\ df_raw = NoTable /\ df = NoTable /\ stats = NoStats
       /\ m = NoMap /\ fig = NoFig

C1_Witness == pc = "done" /\ uploaded.present /\ trace = StageOrder

\* The spellings the schema names for each canonical column
Schema ==
  { [canon |-> Lat,   syns |-> { <<"l","a","t">>,
                                 <<"l","a","t","i","t","u","d","e">> }],
    [canon |-> Lng,   syns |-> { <<"l","n","g">>, <<"l","o","n">>,
                                 <<"l","o","n","g","i","t","u","d","e">> }],
    [canon |-> Speed, syns |-> { <<"s","p","e","e","d">>,
                                 <<"s","p","e","e","d","m","p","h">>,
                                 <<"m","p","h">> }],
    [canon |-> Time,  syns |-> { <<"t","i","m","e">>,
                                 <<"u","t","c","d","a","t","e","t","i","m","e">>,
                                 <<"d","a","t","e","t","i","m","e">>,
                                 <<"t","i","m","e","s","t","a","m","p">> }],
    [canon |-> RPM,   syns |-> { <<"r","p","m">> }] }

SameLetter(a, b) ==
  a = b \/ \E i \in DOMAIN UpperCase : UpperCase[i] = a /\ LowerCase[i] = b

\* name reads as the lower-case text syn once its spaces and underscores are
\* dropped and case is ignored
RECURSIVE Spells(_, _)
Spells(name, syn) ==
  IF name = <<>> THEN syn = <<>>
  ELSE IF Head(name) \in {" ", "_"} THEN Spells(Tail(name), syn)
  ELSE /\ syn # <<>>
       /\ SameLetter(Head(name), Head(syn))
       /\ Spells(Tail(name), Tail(syn))

SpelledBy(T, e) ==
  { j \in DOMAIN T.cols : \E syn \in e.syns : Spells(T.cols[j], syn) }

\* C2: after normalize_columns, for each canonical name some input column is
\* a spelling of, the first such column (in column order) carries the
\* canonical name; every column that spells no synonym keeps its name; and
\* the columns keep their positions and their data.
C2_CanonicalNames ==
  pc = "normalized" =>
    /\ Len(df.cols) = Len(df_raw.cols)
    /\ df.rows = df_raw.rows
    /\ \A e \in Schema :
         SpelledBy(df_raw, e) # {} =>
           \E j \in SpelledBy(df_raw, e) :
             /\ \A k \in SpelledBy(df_raw, e) : j <= k
             /\ df.cols[j] = e.canon
    /\ \A j \in DOMAIN df_raw.cols :
         (\A e \in Schema : j \notin SpelledBy(df_raw, e)) =>
           df.cols[j] = df_raw.cols[j]

C2_Witness ==
  /\ pc = "normalized"
  /\ \E j, k \in DOMAIN df_raw.cols :
       /\ df_raw.cols[j] = <<"U","T","C","_","d","a","t","e","t","i","m","e">>
       /\ df.cols[j] = Time
       /\ df_raw.cols[k] = <<"A","l","t">>
       /\ df.cols[k] = <<"A","l","t">>

\* clean_dataframe has returned its table
Cleaned ==
  uploaded.present /\ pc \in {"cleaned", "summarized", "mapped", "done"}

\* summarize_trip has returned the summary
Summarized == uploaded.present /\ pc \in {"summarized", "mapped", "done"}

\* A cell that holds a number, as typed by the reader or as text
IsNumberCell(cell) ==
  cell.t = "num" \/ (cell.t = "str" /\ IsNumberText(cell.s))

CellNumber(cell) == IF cell.t = "num" THEN cell.v ELSE NumberValue(cell.s)

Cell(T, row, name) == row.cells[Col(T, name)]

\* The condition the schema puts on a row of the table handed to cleaning
RowIsValid(T, row) ==
  /\ IsNumberCell(Cell(T, row, Lat))
  /\ IsNumberCell(Cell(T, row, Lng))
  /\ Cell(T, row, Time).t = "ts"
  /\ CellNumber(Cell(T, row, Lat)) \in -90..90
  /\ CellNumber(Cell(T, row, Lng)) \in -180..180
  /\ \A c \in {Speed, RPM} :
       HasCol(T, c) =>
         IsNumberCell(Cell(T, row, c)) /\ CellNumber(Cell(T, row, c)) >= 0

\* The cells of a valid row once its Lat, Lng, Speed and RPM are numbers
AsNumbers(T, row) ==
  [j \in DOMAIN T.cols |->
     IF T.cols[j] \in {Lat, Lng, Speed, RPM}
     THEN Num(CellNumber(row.cells[j])) ELSE row.cells[j]]

Count(s, x) == Cardinality({ i \in DOMAIN s : s[i] = x })

\* C3: the rows of the cleaned table are exactly the valid rows of the table
\* clean_dataframe was given, each as often as it occurs there: Lat, Lng and
\* Time present, Lat in [-90, 90], Lng in [-180, 180], and Speed and RPM, for
\* each whose column exists, a number >= 0.  Later stages leave the table as
\* cleaning returned it, so no other row reaches the summary, map or chart.
C3_KeepsExactlyValidRows ==
  Cleaned =>
    LET valid == SelectSeq(clean_in.rows, LAMBDA row : RowIsValid(clean_in, row))
        expected == [i \in DOMAIN valid |-> AsNumbers(clean_in, valid[i])]
        kept == [i \in DOMAIN df.rows |-> df.rows[i].cells]
    IN /\ df.cols = clean_in.cols
       /\ Len(kept) = Len(expected)
       /\ \A x \in Range(kept) \cup Range(expected) :
            Count(kept, x) = Count(expected, x)
       /\ Started("plot") => fig.x = Column(df, Time)

C3_Witness ==
  /\ pc = "cleaned"
  /\ HasCol(df, Speed) /\ HasCol(df, RPM)
  /\ Len(df.rows) = 1
  /\ Len(clean_in.rows) = 2
  /\ \E r \in DOMAIN clean_in.rows : Cell(clean_in, clean_in.rows[r], Speed) = NaN

TimesAscend(T) ==
  \A a, b \in DOMAIN T.rows : a < b => TimeOf(T, T.rows[a]) <= TimeOf(T, T.rows[b])

RECURSIVE PairSum(_, _)
PairSum(T, pairs) ==
  IF pairs = {} THEN 0
  ELSE LET i == CHOOSE k \in pairs : TRUE
       IN geodesic_miles(Point(T, i), Point(T, i + 1)) + PairSum(T, pairs \ {i})

\* C4: the distance summarize_trip reports is the sum, over each pair of
\* neighbouring rows of the cleaned table counted once, of the distance
\* between the two; the cleaned table is in ascending Time order; the
\* distance of a one-row table is 0.
C4_DistanceIsPathLength ==
  Summarized =>
    /\ TimesAscend(df)
    /\ stats.distance_mi = PairSum(df, 1..(Len(df.rows) - 1))
    /\ Len(df.rows) = 1 => stats.distance_mi = 0

C4_Witness ==
  /\ pc = "summarized"
  /\ Len(df.rows) = 3
  /\ ~TimesAscend(clean_in)
  /\ geodesic_miles(Point(df, 1), Point(df, 2)) > 0
  /\ geodesic_miles(Point(df, 2), Point(df, 3)) > 0
  /\ stats.distance_mi > geodesic_miles(Point(df, 2), Point(df, 3))

\* Date texts with the day they fall on, counted from 1970-01-01
KnownDates ==
  { [text |-> <<"1","9","7","0","-","0","1","-","0","2">>, day |-> 1],
    [text |-> <<"2","0","2","4","-","0","2","-","2","9">>, day |-> 19782] }

\* C5: parsing the Time column reads a numeric column in one unit for all
\* its cells, milliseconds when its largest value exceeds 1e11 and seconds
\* otherwise (also when it has no value at all), with a missing or
\* out-of-range value becoming a missing timestamp; a non-numeric column is
\* read as dates, text that is no date becoming a missing timestamp; and
\* parsing a Time column raises nothing.
C5_TimeUnitPerColumn ==
  /\ pc = "time_parsed" =>
       LET j == Col(df, Time)
           raw == [r \in DOMAIN df_raw.rows |-> df_raw.rows[r].cells[j]]
           parsed == [r \in DOMAIN df.rows |-> df.rows[r].cells[j]]
           numeric == raw # <<>> /\ \A r \in DOMAIN raw : raw[r].t \in {"num", "nan"}
           ms == \E r \in DOMAIN raw : raw[r].t = "num" /\ raw[r].v > MsThreshold
       IN /\ DOMAIN parsed = DOMAIN raw
          /\ numeric =>
               \A r \in DOMAIN raw :
                 parsed[r] =
                   IF raw[r].t = "nan" THEN NaT
                   ELSE IF ms THEN Ts(raw[r].v * 10000)
                   ELSE IF raw[r].v \in (0 - MaxSecondUnits)..MaxSecondUnits
                        THEN Ts(raw[r].v * 10000000) ELSE NaT
          /\ ~numeric =>
               \A r \in DOMAIN raw :
                 IF \E d \in KnownDates : raw[r] = Str(d.text)
                 THEN \E d \in KnownDates :
                        raw[r] = Str(d.text) /\ parsed[r] = Ts(d.day * TicksPerDay)
                 ELSE parsed[r] = NaT
  /\ Started("parse_time") /\ ~Duplicated(df, Time) => pc # "crashed" \/ Started("clean")

C5_Witness ==
  /\ pc = "time_parsed"
  /\ \E a, b \in DOMAIN df.rows :
       /\ df_raw.rows[a].cells[Col(df, Time)] = Num(MsThreshold + 1)
       /\ df_raw.rows[b].cells[Col(df, Time)] = Num(5)
       /\ df.rows[b].cells[Col(df, Time)] = Ts(50000)

LaterStages == {"summarize", "draw_map", "plot"}

LastShown == IF ui = <<>> THEN "" ELSE ui[Len(ui)]

\* C6: once normalization has left no Time column the run is at that check or
\* stopped with the time error; once the Time column is parsed and Lat or Lng
\* is missing the run is at the call of clean_dataframe or has ended in it
\* (stopped with the missing-column error, or raised on a duplicated label);
\* once cleaning has returned a table without rows the run is at that check
\* or stopped with the no-rows error; in none of these cases has
\* summarize_trip, draw_map or plot_speed_rpm been called, and whenever one
\* of them has been called the table has Lat, Lng and Time columns and at
\* least one row.
C6_ErrorsStopBeforeSummary ==
  /\ Started("normalize") /\ ~HasCol(df, Time) =>
       /\ pc \in {"normalized", "stopped"}
       /\ pc = "stopped" => LastShown = "error: Could not detect a time column"
       /\ Range(trace) \cap (LaterStages \cup {"parse_time", "clean"}) = {}
  /\ Started("parse_time") /\ (~HasCol(df, Lat) \/ ~HasCol(df, Lng)) =>
       /\ pc \in {"time_parsed", "stopped", "crashed"}
       /\ pc = "stopped" => LastShown = "error: Missing required column"
       /\ pc = "crashed" => \E c \in Range(NumericCols) \cup {Time} : Duplicated(df, c)
       /\ Range(trace) \cap LaterStages = {}
  /\ Started("clean") /\ exc = "" /\ FirstMissing(df) = 0 /\ Len(df.rows) = 0 =>
       /\ pc \in {"cleaned", "stopped"}
       /\ pc = "stopped" => LastShown = "error: No valid GPS rows after cleaning."
       /\ Range(trace) \cap LaterStages = {}
  /\ Range(trace) \cap LaterStages # {} =>
       /\ HasCol(df, Lat) /\ HasCol(df, Lng) /\ HasCol(df, Time)
       /\ Len(df.rows) >= 1

C6_Witness ==
  /\ pc = "stopped"
  /\ Started("clean")
  /\ LastShown = "error: No valid GPS rows after cleaning."
  /\ Len(clean_in.rows) >= 1
  /\ Len(df.rows) = 0

SeqMin(s) == CHOOSE v \in Range(s) : \A w \in Range(s) : v <= w

\* C7: the cleaned table is in non-decreasing Time order and its rows are
\* labelled 0..n-1 in that order; the summary's start is the earliest and its
\* end the latest timestamp of the cleaned rows, and its duration, end minus
\* start, is not negative.
C7_SortedByTime ==
  /\ Cleaned =>
       /\ TimesAscend(df)
       /\ \A a \in DOMAIN df.rows : df.rows[a].idx = a - 1
  /\ Summarized =>
       /\ stats.start = SeqMin(Column(df, Time))
       /\ stats.end = SeqMax(Column(df, Time))
       /\ stats.duration = stats.end - stats.start
       /\ stats.duration >= 0

C7_Witness ==
  /\ pc = "summarized"
  /\ Len(df.rows) = Len(clean_in.rows)
  /\ ~TimesAscend(clean_in)
  /\ stats.duration > 0

\* C8: after a headerless read of k >= 1 columns the table's columns are the
\* first k of Lat, Lng, Speed, Time, RPM, in that order, and the run goes on
\* to normalization.
C8_HeaderlessNamesForEveryK ==
  uploaded.present /\ uploaded.raises /\ uploaded.ncols >= 1 /\ pc # "start" =>
    /\ pc # "crashed"
    /\ Len(df_raw.cols) = uploaded.ncols
    /\ \A j \in DOMAIN df_raw.cols :
         j \in DOMAIN ExpectedColumns /\ df_raw.cols[j] = ExpectedColumns[j]

====
